---- MODULE Spec2Model ----
(***************************************************************************)
(* Vibe Bar backend.                                                       *)
(*                                                                         *)
(* Spec: the OpenRouter completion client                                  *)
(* (backend/app/services/openrouter.py, backend/app/config.py).            *)
(* SpecGen: the recipe generation endpoint and service                     *)
(* (backend/app/main.py, backend/app/services/cocktail_service.py).        *)
(* SpecStore: the Community Vibes store, its ratings and view counts       *)
(* (backend/app/services/community_vibes_service.py,                       *)
(* backend/app/routers/community_vibes.py).                                *)
(* Each specification moves the variables of its own component and leaves  *)
(* the other components at rest.                                           *)
(*                                                                         *)
(* One OpenRouterService singleton, obtained through                       *)
(* get_openrouter_service(), serves complete() calls.  A call is followed  *)
(* from one await point to the next: the request in flight, the backoff    *)
(* sleep, the return or the raise.  The remote service is the environment: *)
(* it answers or fails each request after an arbitrary delay.              *)
(***************************************************************************)
EXTENDS Integers, Sequences, FiniteSets, TLC

(***************************************************************************)
(* Bounds of the model                                                     *)
(***************************************************************************)
MaxRetries == 3      \* AI_MAX_RETRIES ranges over 0..MaxRetries
MaxTimeout == 2      \* AI_TIMEOUT ranges over 1..MaxTimeout (seconds)
MaxKeyLen == 2       \* OPENROUTER_API_KEY ranges over strings of at most this length
MaxTextLen == 4      \* a model reply has at most this many tokens
MaxRatings == 3      \* the table recipe_ratings holds at most this many rows
MaxReads == 2        \* a recipe is read at most this many times

\* Longest time the remote service is observed to take over one request.
MaxElapsed == MaxTimeout + 1

\* config.AI_TEMPERATURE (0.7, in tenths) and config.AI_MAX_TOKENS.
AI_TEMPERATURE == 7
AI_MAX_TOKENS == 1000

(***************************************************************************)
(* Values                                                                  *)
(***************************************************************************)
\* Optional[T]: None is the empty sequence, a value v is <<v>>.
None == <<>>
Some(v) == <<v>>

DefaultModelName == "openai/gpt-4o-mini"
FallbackModelName == "openai/gpt-3.5-turbo"
InvalidModelName == "invalid/model-name"

\* Model names the remote service rejects on every request.
RemoteRejects == {InvalidModelName}

\* Characters of an API key: a blank and a non-blank one.
KeyChars == {" ", "k"}

RECURSIVE SeqsUpTo(_, _)
SeqsUpTo(S, n) ==
    IF n = 0 THEN {<<>>}
    ELSE LET shorter == SeqsUpTo(S, n - 1)
         IN shorter \cup {Append(s, c) : s \in {t \in shorter : Len(t) = n - 1}, c \in S}

\* str.strip() on a string of KeyChars.
RECURSIVE LStrip(_)
LStrip(s) == IF s # <<>> /\ Head(s) = " " THEN LStrip(Tail(s)) ELSE s

RECURSIVE RStrip(_)
RStrip(s) ==
    IF s # <<>> /\ s[Len(s)] = " " THEN RStrip(SubSeq(s, 1, Len(s) - 1)) ELSE s

Strip(s) == RStrip(LStrip(s))

\* Config.validate_openrouter_config, with the comparison to "" made before
\* the strip (the slip a mutant of the validation makes).
validate_openrouter_config_NoStrip(key) ==
    key # None /\ key[1] # <<>>

\* Config.validate_openrouter_config
validate_openrouter_config(key) ==
    key # None /\ Strip(key[1]) # <<>>

(***************************************************************************)
(* The messages argument of complete(): a string, a list of dicts, a list  *)
(* of AIMessage objects, or anything else.                                 *)
(***************************************************************************)
StrArg(s) == [type |-> "str", str |-> s, list |-> <<>>]
ListArg(l) == [type |-> "list", str |-> "", list |-> l]
OtherArg == [type |-> "other", str |-> "", list |-> <<>>]
DictItem(r, c) == [elem |-> "dict", role |-> r, content |-> c]
MsgItem(r, c) == [elem |-> "AIMessage", role |-> r, content |-> c]

\* AIMessage(role, content)
AIMessage(r, c) == [role |-> r, content |-> c]

MessagesInputs ==
    { StrArg(""),
      StrArg("Test message"),
      ListArg(<<>>),
      ListArg(<<DictItem("user", "Test message")>>),
      ListArg(<<DictItem("user", "")>>),
      ListArg(<<MsgItem("system", "You are a bartender"), MsgItem("user", "Test message")>>),
      ListArg(<<MsgItem("user", "")>>),
      OtherArg }

ModelInputs == {None, Some(""), Some(FallbackModelName), Some(InvalidModelName)}

\* complete(): "Normalize messages to AIMessage objects".  The result is
\* Some(list of AIMessage), or None where the code raises ValueError.
NormalizeMessages(messages) ==
    IF messages.type = "str"
    THEN Some(<<AIMessage("user", messages.str)>>)
    ELSE IF messages.type = "list" /\ messages.list # <<>>
                /\ messages.list[1].elem = "dict"
    THEN Some([i \in 1..Len(messages.list) |->
                 AIMessage(messages.list[i].role, messages.list[i].content)])
    ELSE IF messages.type = "list" /\ messages.list # <<>>
                /\ messages.list[1].elem = "AIMessage"
    THEN Some([i \in 1..Len(messages.list) |->
                 AIMessage(messages.list[i].role, messages.list[i].content)])
    ELSE None

\* target_model = model or self.default_model
TargetModel(model, default_model) ==
    IF model = None \/ model[1] = "" THEN default_model ELSE model[1]

\* The retry test off by one: the last round of a loop is given up.
HasNextAttempt_OffByOne(a, max_retries) == a < max_retries - 2

\* if attempt < self.max_retries - 1: sleep before the next attempt
HasNextAttempt(a, max_retries) == a < max_retries - 1

\* A linear backoff in place of the exponential one.
Backoff_Linear(a) == 2 * a

\* await asyncio.sleep(2 ** attempt)
Backoff(a) == 2 ^ a

\* The fallback test with the comparison of the models inverted.
ShouldTryFallback_SameModel(use_fallback, fallback_model, target) ==
    use_fallback /\ fallback_model = target

\* The fallback test without the comparison of the models.
ShouldTryFallback_AnyModel(use_fallback, fallback_model, target) ==
    use_fallback

\* if use_fallback and self.fallback_model != target_model
ShouldTryFallback(use_fallback, fallback_model, target) ==
    use_fallback /\ fallback_model # target

\* The response labelled with the configured default model instead of the
\* model the request was sent to.
AIResponse_DefaultModel(content, model, response_time) ==
    [content |-> content, model_used |-> DefaultModelName,
     response_time |-> response_time]

\* AIResponse(content=..., model_used=model, response_time=...)
AIResponse(content, model, response_time) ==
    [content |-> content, model_used |-> model, response_time |-> response_time]

NoResponse == None

(***************************************************************************)
(* State                                                                   *)
(***************************************************************************)
VARIABLES
    config,              \* app.config.config: the environment-sourced settings
    openrouter_service,  \* the module-level singleton: None or Some(service)
    ctor_result,         \* outcome of the last get_openrouter_service() call
    pc,                  \* where the complete() call stands
    call,                \* the arguments of the complete() call
    msgs,                \* the normalized messages
    target_model,        \* target_model of the call
    phase,               \* which retry loop runs: "primary" or "fallback"
    attempt,             \* the loop variable of that loop
    inflight,            \* requests awaiting the remote service
    elapsed,             \* seconds since the request (or the sleep) started
    sleep_seconds,       \* argument of the asyncio.sleep in progress
    log,                 \* the attempts and sleeps of the call, in order
    result,              \* the returned AIResponse: None or Some(response)
    error                \* the exception the call raised, "none" if none

\* The recipe generation endpoint (one request at a time).
VARIABLES
    gen_pc,              \* where the generate request stands
    preferences,         \* the UserPreferences of the request
    user_prompt,         \* the lines of the user turn sent to the model
    complete_calls,      \* complete() calls made by the request
    ai_reply,            \* the content complete() returned
    stripped,            \* that content with the markdown fence removed
    recipe,              \* the CocktailRecipe returned: None or Some(recipe)
    gen_error,           \* the exception generate_cocktail_recipe raised
    http_status,         \* the status the endpoint answered, 0 before it answers
    request_model,       \* the "model" of the request body: None or Some(name)
    complete_args        \* the model, temperature and max_tokens given to complete()

\* The Community Vibes store and the requests running against it.
VARIABLES
    recipes,             \* table community_vibes_recipes, by recipe id
    ratings,             \* table recipe_ratings, in insertion order
    req,                 \* the request each worker is serving
    reads_done           \* get_recipe calls that returned the recipe, by recipe id

\* The DatabaseService that wraps the Supabase client.
VARIABLES
    db_config,           \* the Supabase settings the service is built from
    db_client,           \* self._client: "unset" before construction, "None" or the client's key
    db_ops,              \* operations executed against the store
    db_answer            \* the outcome of the last call on the service

clientVars == <<config, openrouter_service, ctor_result, pc, call, msgs, target_model,
                phase, attempt, inflight, elapsed, sleep_seconds, log, result, error>>

genVars == <<gen_pc, preferences, user_prompt, complete_calls, ai_reply, stripped,
             recipe, gen_error, http_status, request_model, complete_args>>

storeVars == <<recipes, ratings, req, reads_done>>

dbVars == <<db_config, db_client, db_ops, db_answer>>

vars == <<clientVars, genVars, storeVars, dbVars>>

callVars == <<pc, call, msgs, target_model, phase, attempt, inflight, elapsed,
              sleep_seconds, log, result, error>>

NoCall ==
    [messages |-> OtherArg, model |-> None, use_fallback |-> TRUE,
     temperature |-> None, max_tokens |-> None]

ApiKeys == {None} \cup {Some(k) : k \in SeqsUpTo(KeyChars, MaxKeyLen)}

Configs ==
    [OPENROUTER_API_KEY : ApiKeys,
     DEFAULT_AI_MODEL : {DefaultModelName},
     FALLBACK_AI_MODEL : {FallbackModelName, DefaultModelName},
     AI_TIMEOUT : 1..MaxTimeout,
     AI_MAX_RETRIES : 0..MaxRetries]

(***************************************************************************)
(* Values of the recipe generation                                         *)
(***************************************************************************)
\* UserPreferences(): every field at its default.
NoPreferences ==
    [ingredients |-> <<>>, customIngredients |-> None, flavors |-> <<>>,
     vibe |-> None, specialRequests |-> None]

\* A reply text is a sequence of tokens: "FENCE" (three backticks), the
\* language tag "json", whitespace " ", and "x", which stands for the text
\* of a document.
NoReply == [text |-> <<>>, doc |-> "prose"]

NoError == [type |-> "none", key |-> ""]

\* No complete() call was made.
NoArgs == [model |-> None, temperature |-> None, max_tokens |-> None]

\* No generate request is being served.
GenAtRest ==
    /\ gen_pc = "idle"
    /\ preferences = NoPreferences
    /\ user_prompt = <<>>
    /\ complete_calls = 0
    /\ ai_reply = NoReply
    /\ stripped = <<>>
    /\ recipe = None
    /\ gen_error = NoError
    /\ http_status = 0
    /\ request_model = None
    /\ complete_args = NoArgs

(***************************************************************************)
(* Values of the Community Vibes store                                     *)
(***************************************************************************)
RecipeIds == {"r1", "r2"}

\* The workers that serve requests against the one shared store.
Workers == {"w1", "w2"}

\* A row of community_vibes_recipes; rating_average is kept in hundredths,
\* name and description are kept as their lower-case words.  An identifier
\* is given to one row only: used tells that it was given.
NewRecipeRow ==
    [exists |-> TRUE, rating_average |-> None, rating_count |-> 0, view_count |-> 0,
     is_public |-> TRUE, is_approved |-> TRUE, used |-> TRUE,
     name |-> <<"midnight", "garden">>, description |-> <<"gin", "cocktail">>]

NoRecipeRow ==
    [exists |-> FALSE, rating_average |-> None, rating_count |-> 0, view_count |-> 0,
     is_public |-> FALSE, is_approved |-> FALSE, used |-> FALSE,
     name |-> <<>>, description |-> <<>>]

\* The body of a rate request: RecipeRating before validation.
RatingBody(rid, rating) == [recipe_id |-> rid, rating |-> rating]

\* body is the request body as sent, rating_data the RecipeRating the handler
\* holds; found, current_views and snapshot are what the request last read;
\* warned tells that _update_recipe_rating_stats logged a swallowed failure;
\* listed and total are the recipes and the count a listing returned.
NoRequest ==
    [op |-> "none", pc |-> "idle", path_id |-> "r1",
     body |-> RatingBody(None, 0), rating_data |-> RatingBody(None, 0),
     found |-> FALSE, current_views |-> 0,
     snapshot |-> <<>>, status |-> 0, returned |-> "none", warned |-> FALSE,
     listed |-> {}, total |-> 0]

\* The store holds recipe r1, no rating, and no request is being served.
StoreAtRest ==
    /\ recipes = [r \in RecipeIds |-> IF r = "r1" THEN NewRecipeRow ELSE NoRecipeRow]
    /\ ratings = <<>>
    /\ req = [w \in Workers |-> NoRequest]
    /\ reads_done = [r \in RecipeIds |-> 0]

(***************************************************************************)
(* Values of the database service                                          *)
(***************************************************************************)
MaxDbOps == 2

\* validate tells what config.validate_supabase_config() does: it returns
\* True ("complete"), returns False ("incomplete") or is not defined by the
\* configuration ("AttributeError"); create_fails tells that create_client
\* raises.
DefaultDbConfig ==
    [validate |-> "complete", development |-> TRUE, service_key |-> FALSE,
     create_fails |-> FALSE]

NoAnswer == [method |-> "none", outcome |-> "none", status |-> "none", connected |-> FALSE]

\* No DatabaseService was constructed.
DbAtRest ==
    /\ db_config = DefaultDbConfig
    /\ db_client = "unset"
    /\ db_ops = 0
    /\ db_answer = NoAnswer

\* The completion client before get_openrouter_service() was ever called.
ClientAtStart ==
    /\ openrouter_service = None
    /\ ctor_result = "none"
    /\ pc = "idle"
    /\ call = NoCall
    /\ msgs = <<>>
    /\ target_model = ""
    /\ phase = "primary"
    /\ attempt = 0
    /\ inflight = {}
    /\ elapsed = 0
    /\ sleep_seconds = 0
    /\ log = <<>>
    /\ result = NoResponse
    /\ error = "none"

Init ==
    /\ GenAtRest
    /\ DbAtRest
    /\ StoreAtRest
    /\ config \in Configs
    /\ openrouter_service = None
    /\ ctor_result = "none"
    /\ pc = "idle"
    /\ call = NoCall
    /\ msgs = <<>>
    /\ target_model = ""
    /\ phase = "primary"
    /\ attempt = 0
    /\ inflight = {}
    /\ elapsed = 0
    /\ sleep_seconds = 0
    /\ log = <<>>
    /\ result = NoResponse
    /\ error = "none"

\* The constructed service (defined only once it exists).
svc == openrouter_service[1]

\* OpenRouterService.__init__ past the API-key check
NewService ==
    [default_model |-> config.DEFAULT_AI_MODEL,
     fallback_model |-> config.FALLBACK_AI_MODEL,
     timeout |-> config.AI_TIMEOUT,
     max_retries |-> config.AI_MAX_RETRIES]

(***************************************************************************)
(* get_openrouter_service(): get or create the singleton.                  *)
(***************************************************************************)
GetOpenRouterService ==
    /\ UNCHANGED <<genVars, storeVars, dbVars>>
    /\ pc = "idle"
    /\ IF openrouter_service = None
       THEN IF ~validate_openrouter_config(config.OPENROUTER_API_KEY)
            THEN /\ ctor_result' = "OpenRouterError"
                 /\ UNCHANGED openrouter_service
            ELSE /\ ctor_result' = "ok"
                 /\ openrouter_service' = Some(NewService)
       ELSE /\ ctor_result' = "ok"
            /\ UNCHANGED openrouter_service
    /\ UNCHANGED <<config, callVars>>

(***************************************************************************)
(* Log entries                                                             *)
(***************************************************************************)
AttemptEntry(p, m, a) ==
    [kind |-> "attempt", phase |-> p, model |-> m, attempt |-> a,
     outcome |-> "pending", seconds |-> 0]

SleepEntry(p, a, s) ==
    [kind |-> "sleep", phase |-> p, model |-> "", attempt |-> a,
     outcome |-> "slept", seconds |-> s]

\* The request of the attempt in progress is resolved with the given outcome.
Resolved(l, outcome) == [l EXCEPT ![Len(l)].outcome = outcome]

\* The request started as a task that nobody waits for.
AwaitDone_NotAwaited(flying, id) == flying

\* The awaited request is over once the await returns or raises.
AwaitDone(flying, id) == flying \ {id}

\* _make_completion_request is entered: the request goes out.
StartRequest(p, m, a) ==
    /\ pc' = "attempt"
    /\ phase' = p
    /\ attempt' = a
    /\ inflight' = AwaitDone(inflight, <<phase, attempt>>) \cup {<<p, a>>}
    /\ elapsed' = 0
    /\ sleep_seconds' = 0

\* raise OpenRouterError("All attempts failed with both primary and fallback models")
RaiseAllFailed ==
    /\ pc' = "raised"
    /\ error' = "OpenRouterError"
    /\ inflight' = AwaitDone(inflight, <<phase, attempt>>)
    /\ elapsed' = 0
    /\ sleep_seconds' = 0
    /\ UNCHANGED <<phase, attempt>>

(***************************************************************************)
(* complete(): entry.  The messages are normalized (ValueError when they   *)
(* are no string, no non-empty list of dicts and no non-empty list of      *)
(* AIMessage), the target model is chosen and the primary loop is entered. *)
(* With an empty range(max_retries) neither loop makes a request and the   *)
(* call raises at once.                                                    *)
(***************************************************************************)
CompleteCall(messages, model, temperature, max_tokens, use_fallback) ==
    /\ UNCHANGED <<genVars, storeVars, dbVars>>
    /\ pc = "idle"
    /\ openrouter_service # None
    /\ call' = [messages |-> messages, model |-> model, use_fallback |-> use_fallback,
                temperature |-> temperature, max_tokens |-> max_tokens]
    /\ result' = NoResponse
    /\ LET normalized == NormalizeMessages(messages)
           target == TargetModel(model, svc.default_model)
       IN IF normalized = None
          THEN /\ pc' = "raised"
               /\ error' = "ValueError"
               /\ UNCHANGED <<msgs, target_model, phase, attempt, inflight,
                              elapsed, sleep_seconds, log>>
          ELSE /\ msgs' = normalized[1]
               /\ target_model' = target
               /\ IF 0 < svc.max_retries
                  THEN /\ StartRequest("primary", target, 0)
                       /\ log' = <<AttemptEntry("primary", target, 0)>>
                       /\ error' = "none"
                  ELSE /\ RaiseAllFailed
                       /\ log' = <<>>
    /\ UNCHANGED <<config, openrouter_service, ctor_result>>

\* complete() called without temperature and max_tokens.
Complete(messages, model, use_fallback) ==
    CompleteCall(messages, model, None, None, use_fallback)

\* complete() called as health_check and the recipe service call it: a
\* prompt, no model, and a temperature (in tenths) and max_tokens.
CompleteSampled(temperature, max_tokens) ==
    CompleteCall(StrArg("Test message"), None, temperature, max_tokens, TRUE)

(***************************************************************************)
(* Time passes while self.client.chat.completions.create is awaited.       *)
(* Nothing in the service ends the await: self.timeout is stored and never *)
(* read.                                                                   *)
(***************************************************************************)
TickRequest ==
    /\ UNCHANGED <<genVars, storeVars, dbVars>>
    /\ pc = "attempt"
    /\ elapsed < MaxElapsed
    /\ elapsed' = elapsed + 1
    /\ UNCHANGED <<config, openrouter_service, ctor_result, pc, call, msgs,
                   target_model, phase, attempt, inflight, sleep_seconds, log,
                   result, error>>

\* The model the loop in progress sends its requests to.
PhaseModel == IF phase = "primary" THEN target_model ELSE svc.fallback_model

\* Python's "value or default" on an optional number: None and 0 are falsy.
OrDefault(value, default) ==
    IF value # None /\ value[1] # 0 THEN value[1] ELSE default

\* _make_completion_request: the request_params of a request.
RequestParams(model, temperature, max_tokens) ==
    [model |-> model,
     temperature |-> OrDefault(temperature, AI_TEMPERATURE),
     max_tokens |-> OrDefault(max_tokens, AI_MAX_TOKENS)]

\* The request_params of the request in flight: complete() hands its
\* temperature and max_tokens unchanged to every attempt.
SentParams == RequestParams(PhaseModel, call.temperature, call.max_tokens)

(***************************************************************************)
(* _make_completion_request returns: the remote service answered.  The     *)
(* content of the first choice may be None, which becomes "".              *)
(***************************************************************************)
AttemptSucceeds_KeepsGoing(content) ==
    /\ UNCHANGED <<genVars, storeVars, dbVars>>
    /\ pc = "attempt"
    /\ PhaseModel \notin RemoteRejects
    /\ result' = Some(AIResponse(IF content = None THEN "" ELSE content[1],
                                 PhaseModel, elapsed))
    /\ IF HasNextAttempt(attempt, svc.max_retries)
       THEN /\ StartRequest(phase, PhaseModel, attempt + 1)
            /\ log' = Append(Resolved(log, "ok"),
                             AttemptEntry(phase, PhaseModel, attempt + 1))
       ELSE /\ pc' = "returned"
            /\ log' = Resolved(log, "ok")
            /\ inflight' = AwaitDone(inflight, <<phase, attempt>>)
            /\ elapsed' = 0
            /\ UNCHANGED <<phase, attempt, sleep_seconds>>
    /\ UNCHANGED <<config, openrouter_service, ctor_result, call, msgs,
                   target_model, error>>

AttemptSucceeds(content) ==
    /\ UNCHANGED <<genVars, storeVars, dbVars>>
    /\ pc = "attempt"
    /\ PhaseModel \notin RemoteRejects
    /\ pc' = "returned"
    /\ result' = Some(AIResponse(IF content = None THEN "" ELSE content[1],
                                 PhaseModel, elapsed))
    /\ log' = Resolved(log, "ok")
    /\ inflight' = AwaitDone(inflight, <<phase, attempt>>)
    /\ elapsed' = 0
    /\ UNCHANGED <<config, openrouter_service, ctor_result, call, msgs,
                   target_model, phase, attempt, sleep_seconds, error>>

(***************************************************************************)
(* _make_completion_request raises OpenRouterError (any exception of the   *)
(* request is wrapped into it) and complete() catches it: sleep if the     *)
(* loop has another round, else leave the loop; after the primary loop     *)
(* enter the fallback loop if it applies, else raise.                      *)
(***************************************************************************)
AttemptFails ==
    /\ UNCHANGED <<genVars, storeVars, dbVars>>
    /\ pc = "attempt"
    /\ IF HasNextAttempt(attempt, svc.max_retries)
       THEN /\ pc' = "sleep"
            /\ sleep_seconds' = Backoff(attempt)
            /\ elapsed' = 0
            /\ inflight' = AwaitDone(inflight, <<phase, attempt>>)
            /\ log' = Resolved(log, "failed")
            /\ UNCHANGED <<phase, attempt, error>>
       ELSE IF /\ phase = "primary"
               /\ ShouldTryFallback(call.use_fallback, svc.fallback_model, target_model)
       THEN /\ StartRequest("fallback", svc.fallback_model, 0)
            /\ log' = Append(Resolved(log, "failed"),
                             AttemptEntry("fallback", svc.fallback_model, 0))
            /\ UNCHANGED error
       ELSE /\ RaiseAllFailed
            /\ log' = Resolved(log, "failed")
    /\ UNCHANGED <<config, openrouter_service, ctor_result, call, msgs,
                   target_model, result>>

\* Time passes while asyncio.sleep(2 ** attempt) is awaited.
TickSleep ==
    /\ UNCHANGED <<genVars, storeVars, dbVars>>
    /\ pc = "sleep"
    /\ elapsed < sleep_seconds
    /\ elapsed' = elapsed + 1
    /\ UNCHANGED <<config, openrouter_service, ctor_result, pc, call, msgs,
                   target_model, phase, attempt, inflight, sleep_seconds, log,
                   result, error>>

\* asyncio.sleep returns; "continue" starts the next round of the loop.
SleepDone ==
    /\ UNCHANGED <<genVars, storeVars, dbVars>>
    /\ pc = "sleep"
    /\ elapsed = sleep_seconds
    /\ StartRequest(phase, PhaseModel, attempt + 1)
    /\ log' = Append(Append(log, SleepEntry(phase, attempt, elapsed)),
                     AttemptEntry(phase, PhaseModel, attempt + 1))
    /\ UNCHANGED <<config, openrouter_service, ctor_result, call, msgs,
                   target_model, result, error>>

\* The caller has the result or the exception; the service is free again.
Finish ==
    /\ UNCHANGED <<genVars, storeVars, dbVars>>
    /\ pc \in {"returned", "raised"}
    /\ pc' = "idle"
    /\ call' = NoCall
    /\ msgs' = <<>>
    /\ target_model' = ""
    /\ phase' = "primary"
    /\ attempt' = 0
    /\ inflight' = {}
    /\ elapsed' = 0
    /\ sleep_seconds' = 0
    /\ log' = <<>>
    /\ result' = NoResponse
    /\ error' = "none"
    /\ UNCHANGED <<config, openrouter_service, ctor_result>>

ReplyContents == {None, Some("A gin cocktail")}

Next ==
    \/ GetOpenRouterService
    \/ \E m \in MessagesInputs, mo \in ModelInputs, f \in BOOLEAN : Complete(m, mo, f)
    \/ TickRequest
    \/ \E c \in ReplyContents : AttemptSucceeds(c)
    \/ AttemptFails
    \/ TickSleep
    \/ SleepDone
    \/ Finish

Spec == Init /\ [][Next]_vars

\* Calls that choose their temperature and max_tokens.
TemperatureInputs == {None, Some(0), Some(1), Some(8)}
MaxTokensInputs == {None, Some(0), Some(50), Some(1000)}

NextParams ==
    \/ GetOpenRouterService
    \/ \E t \in TemperatureInputs, k \in MaxTokensInputs : CompleteSampled(t, k)
    \/ TickRequest
    \/ \E c \in ReplyContents : AttemptSucceeds(c)
    \/ AttemptFails
    \/ TickSleep
    \/ SleepDone
    \/ Finish

SpecParams == Init /\ [][NextParams]_vars

\* Every request resolves and every backoff sleep ends: an attempt that is
\* not answered fails in the end, and asyncio.sleep returns.
Resolves ==
    /\ WF_vars(AttemptFails)
    /\ WF_vars(TickSleep)
    /\ WF_vars(SleepDone)

SpecResolving == Spec /\ Resolves

(***************************************************************************)
(* Reading the log of a call                                               *)
(***************************************************************************)
IsAttempt(e) == e.kind = "attempt"

\* The attempts of the call, in the order they were started.
Attempts == SelectSeq(log, IsAttempt)

\* Every attempt made so far has failed.
AllFailed == \A i \in 1..Len(log) : IsAttempt(log[i]) => log[i].outcome = "failed"

\* The call is over and got past the normalization of its messages.
CallOver == pc \in {"returned", "raised"} /\ error # "ValueError"

\* The call raised the all-attempts-failed error and returned nothing.
RaisedAllFailed == pc = "raised" /\ error = "OpenRouterError" /\ result = NoResponse

(***************************************************************************)
(* C1: when every attempt fails, use_fallback is true and the fallback     *)
(* model differs from the target model, complete() makes exactly           *)
(* max_retries attempts against the target model, then exactly max_retries *)
(* attempts against the fallback model, 2 * max_retries in all, and then   *)
(* raises OpenRouterError.                                                 *)
(***************************************************************************)
C1_ExhaustsBothModels ==
    (/\ CallOver
     /\ AllFailed
     /\ call.use_fallback
     /\ svc.fallback_model # target_model)
    => /\ Len(Attempts) = 2 * svc.max_retries
       /\ \A i \in 1..svc.max_retries :
            /\ Attempts[i].model = target_model
            /\ Attempts[svc.max_retries + i].model = svc.fallback_model
       /\ RaisedAllFailed

C1_Witness ==
    /\ CallOver
    /\ AllFailed
    /\ call.use_fallback
    /\ svc.fallback_model # target_model
    /\ svc.max_retries >= 2
    /\ Len(Attempts) = 2 * svc.max_retries
    /\ RaisedAllFailed

(***************************************************************************)
(* C2: no attempt is made against the fallback model until max_retries     *)
(* attempts against the target model have all failed, and once an attempt  *)
(* against the fallback model has been made no further attempt is made     *)
(* against the target model.  (The fallback loop runs only with a fallback *)
(* model that differs from the target model, so its attempts are the       *)
(* attempts against the fallback model.)                                   *)
(***************************************************************************)
C2_FallbackOnlyAfterTargetExhausted ==
    pc # "idle" =>
      \A i \in 1..Len(log) :
        /\ (IsAttempt(log[i]) /\ log[i].phase = "fallback") =>
             /\ log[i].model = svc.fallback_model
             /\ log[i].model # target_model
             /\ Cardinality({j \in 1..(i - 1) :
                               /\ IsAttempt(log[j])
                               /\ log[j].model = target_model
                               /\ log[j].outcome = "failed"}) = svc.max_retries
             /\ \A j \in (i + 1)..Len(log) :
                  IsAttempt(log[j]) => log[j].model # target_model
        /\ (/\ IsAttempt(log[i])
            /\ svc.fallback_model # target_model
            /\ log[i].model = svc.fallback_model) => log[i].phase = "fallback"

C2_Witness ==
    /\ pc = "attempt"
    /\ phase = "fallback"
    /\ attempt >= 1
    /\ svc.max_retries >= 2

(***************************************************************************)
(* C3: when every attempt fails and use_fallback is false or the fallback  *)
(* model equals the target model, complete() makes exactly max_retries     *)
(* attempts, all against the target model, and raises OpenRouterError; the *)
(* fallback loop is never entered.                                         *)
(***************************************************************************)
C3_NoFallbackLoop ==
    (/\ pc \in {"attempt", "sleep", "returned", "raised"}
     /\ error # "ValueError"
     /\ (~call.use_fallback \/ svc.fallback_model = target_model))
    => /\ phase = "primary"
       /\ \A i \in 1..Len(log) : log[i].phase = "primary"
       /\ \A i \in 1..Len(Attempts) : Attempts[i].model = target_model
       /\ (CallOver /\ AllFailed) =>
            /\ Len(Attempts) = svc.max_retries
            /\ RaisedAllFailed

C3_Witness ==
    /\ CallOver
    /\ AllFailed
    /\ call.use_fallback
    /\ svc.fallback_model = target_model
    /\ svc.max_retries >= 2
    /\ Len(Attempts) = svc.max_retries
    /\ RaisedAllFailed

(***************************************************************************)
(* C4: a returned result carries as model_used the model of the attempt    *)
(* that succeeded: the target model after a success in the primary loop,   *)
(* the fallback model after a success in the fallback loop; model_used     *)
(* differs from the requested (target) model exactly when the fallback     *)
(* loop produced the answer.                                               *)
(***************************************************************************)
C4_ModelUsedIsAnsweringModel ==
    pc = "returned" =>
      /\ result # NoResponse
      /\ log # <<>>
      /\ LET last == log[Len(log)]
         IN /\ IsAttempt(last)
            /\ last.outcome = "ok"
            /\ result[1].model_used = last.model
            /\ last.phase = "primary" => result[1].model_used = target_model
            /\ last.phase = "fallback" => result[1].model_used = svc.fallback_model
            /\ (result[1].model_used # target_model) <=> (last.phase = "fallback")

C4_Witness ==
    /\ pc = "returned"
    /\ result # NoResponse
    /\ result[1].model_used # target_model
    /\ result[1].model_used = svc.fallback_model

(***************************************************************************)
(* C5: after a failed attempt with index a that is followed by another     *)
(* attempt against the same model, the client sleeps 2^a seconds before    *)
(* that next attempt starts; the index restarts at 0 for the fallback      *)
(* model.                                                                  *)
(***************************************************************************)
C5_ExponentialBackoff ==
    /\ pc = "sleep" =>
         /\ sleep_seconds = 2 ^ attempt
         /\ elapsed <= sleep_seconds
         /\ log[Len(log)].outcome = "failed"
    /\ \A i \in 1..Len(log) :
         IsAttempt(log[i]) =>
           \* the first attempt of a loop has index 0
           /\ (i = 1 \/ log[i - 1].phase # log[i].phase) <=> (log[i].attempt = 0)
           \* a later attempt of a loop follows a sleep of 2^a seconds, which
           \* follows the failed attempt a of the same loop
           /\ log[i].attempt > 0 =>
                /\ i >= 3
                /\ log[i - 1].kind = "sleep"
                /\ log[i - 1].seconds = 2 ^ (log[i].attempt - 1)
                /\ IsAttempt(log[i - 2])
                /\ log[i - 2].outcome = "failed"
                /\ log[i - 2].attempt = log[i].attempt - 1
                /\ log[i - 2].phase = log[i].phase
                /\ log[i - 2].model = log[i].model
           \* two attempts of one loop are never adjacent
           /\ (i > 1 /\ IsAttempt(log[i - 1])) => log[i - 1].phase # log[i].phase

C5_Witness ==
    /\ pc = "attempt"
    /\ phase = "fallback"
    /\ attempt = 1
    /\ \E i \in 1..Len(log) :
         log[i].kind = "sleep" /\ log[i].phase = "primary" /\ log[i].seconds = 2
    /\ log[Len(log) - 1].kind = "sleep"
    /\ log[Len(log) - 1].seconds = 1

(***************************************************************************)
(* C6: within one call at most one attempt is in flight at any time: an    *)
(* attempt and the sleep that follows its failure are over before the next *)
(* attempt starts.                                                         *)
(***************************************************************************)
C6_OneAttemptInFlight ==
    /\ Cardinality(inflight) <= 1
    /\ pc = "attempt" => inflight = {<<phase, attempt>>}
    /\ pc # "attempt" => inflight = {}
    /\ \A i \in 1..Len(log) : log[i].outcome = "pending" => i = Len(log)

C6_Witness ==
    /\ pc = "attempt"
    /\ Len(Attempts) >= 3
    /\ Cardinality(inflight) = 1

(***************************************************************************)
(* C7: complete() rejects a conversation of zero messages, or whose only   *)
(* message has empty content, with an error; such input never results in   *)
(* a successful completion.                                                *)
(***************************************************************************)
\* The resolved conversation has no message, or one message of empty content.
EmptyInput(messages) ==
    \/ messages.type = "str" /\ messages.str = ""
    \/ messages.type = "list" /\ messages.list = <<>>
    \/ /\ messages.type = "list"
       /\ Len(messages.list) = 1
       /\ messages.list[1].content = ""

C7_EmptyInputNeverCompletes ==
    (pc # "idle" /\ EmptyInput(call.messages)) =>
        /\ pc # "returned"
        /\ result = NoResponse

(***************************************************************************)
(* C8: each attempt is bounded by the configured timeout (AI_TIMEOUT): a   *)
(* request that has not resolved when the timeout elapses is ended and     *)
(* counted as a failed attempt.                                            *)
(***************************************************************************)
C8_AttemptBoundedByTimeout ==
    pc = "attempt" => elapsed <= svc.timeout

(***************************************************************************)
(* C9: complete() with use_fallback left at its default (true) and a       *)
(* target model the remote service rejects on every attempt raises         *)
(* OpenRouterError and returns no result.                                  *)
(***************************************************************************)
C9_RejectedModelRaises ==
    (/\ CallOver
     /\ call.use_fallback
     /\ target_model \in RemoteRejects)
    => RaisedAllFailed

(***************************************************************************)
(* C10: with the API key absent or blank the construction of the service   *)
(* fails at once with OpenRouterError and yields no service object; no     *)
(* complete() call ever runs on such a configuration.                      *)
(***************************************************************************)
\* The key is unset, empty or made of whitespace only.
KeyBlank(key) == key = None \/ \A i \in 1..Len(key[1]) : key[1][i] = " "

C10_ConstructorFailsFast ==
    KeyBlank(config.OPENROUTER_API_KEY) =>
        /\ openrouter_service = None
        /\ ctor_result \in {"none", "OpenRouterError"}
        /\ pc = "idle"
        /\ log = <<>>

C10_Witness ==
    /\ config.OPENROUTER_API_KEY # None
    /\ config.OPENROUTER_API_KEY[1] # <<>>
    /\ KeyBlank(config.OPENROUTER_API_KEY)
    /\ ctor_result = "OpenRouterError"
    /\ openrouter_service = None

(***************************************************************************)
(***************************************************************************)
(* SpecGen: POST /api/cocktails/generate and                               *)
(* CocktailRecipeService.generate_cocktail_recipe.                         *)
(*                                                                         *)
(* The request builds the prompt, awaits one complete() call and turns its *)
(* content into a recipe.  complete() is the await point: it returns a     *)
(* content or raises OpenRouterError, as Spec shows.                       *)
(***************************************************************************)
(***************************************************************************)

\* Python truthiness of a list and of an Optional[str].
TruthyList(l) == l # <<>>
TruthyStr(o) == o # None /\ o[1] # ""

PreferenceInputs ==
    [ingredients : {<<>>, <<"gin">>},
     customIngredients : {None, Some(""), Some("mint")},
     flavors : {<<>>, <<"sweet">>},
     vibe : {None, Some("date night")},
     specialRequests : {None, Some("no eggs")}]

\* One line of the user turn: its fixed text and the values put into it.
Line(label, values) == [label |-> label, values |-> values]

HeaderLine == Line("Create a cocktail recipe with these preferences:", <<>>)
GenericLine == Line("Create a creative and delicious cocktail recipe.", <<>>)
JsonOnlyLine == Line("Respond with ONLY the JSON object, no markdown or extra text.", <<>>)

\* "Build user prompt from preferences"
BuildUserPrompt(p) ==
    <<HeaderLine>>
    \o (IF TruthyList(p.ingredients)
        THEN <<Line("Base ingredients", p.ingredients)>> ELSE <<>>)
    \o (IF TruthyStr(p.customIngredients)
        THEN <<Line("Additional ingredients", p.customIngredients)>> ELSE <<>>)
    \o (IF TruthyList(p.flavors)
        THEN <<Line("Flavor profiles", p.flavors)>> ELSE <<>>)
    \o (IF TruthyStr(p.vibe)
        THEN <<Line("Vibe", p.vibe)>> ELSE <<>>)
    \o (IF TruthyStr(p.specialRequests)
        THEN <<Line("Special requests", p.specialRequests)>> ELSE <<>>)
    \o (IF ~(TruthyList(p.ingredients) \/ TruthyList(p.flavors) \/ TruthyStr(p.vibe))
        THEN <<GenericLine>> ELSE <<>>)
    \o <<JsonOnlyLine>>

(***************************************************************************)
(* The reply of the model                                                  *)
(***************************************************************************)
Tokens == {"FENCE", "json", " ", "x"}

ReplyTexts == SeqsUpTo(Tokens, MaxTextLen)

StartsWith(s, prefix) ==
    Len(s) >= Len(prefix) /\ SubSeq(s, 1, Len(prefix)) = prefix

EndsWith(s, suffix) ==
    Len(s) >= Len(suffix) /\ SubSeq(s, Len(s) - Len(suffix) + 1, Len(s)) = suffix

\* The fence removal without the closing strip().
StripFences_NoFinalTrim(text) ==
    LET c0 == Strip(text)
        c1 == IF StartsWith(c0, <<"FENCE", "json">>) THEN SubSeq(c0, 3, Len(c0)) ELSE c0
        c2 == IF StartsWith(c1, <<"FENCE">>) THEN SubSeq(c1, 2, Len(c1)) ELSE c1
        c3 == IF EndsWith(c2, <<"FENCE">>) THEN SubSeq(c2, 1, Len(c2) - 1) ELSE c2
    IN c3

\* "Parse response - remove any markdown formatting"
StripFences(text) ==
    LET c0 == Strip(text)
        c1 == IF StartsWith(c0, <<"FENCE", "json">>) THEN SubSeq(c0, 3, Len(c0)) ELSE c0
        c2 == IF StartsWith(c1, <<"FENCE">>) THEN SubSeq(c1, 2, Len(c1)) ELSE c1
        c3 == IF EndsWith(c2, <<"FENCE">>) THEN SubSeq(c2, 1, Len(c2) - 1) ELSE c2
    IN Strip(c3)

\* The documents a reply may carry: JSON objects, a JSON array, and prose.
FullData ==
    [recipeTitle |-> "Midnight Garden",
     recipeDescription |-> "A sophisticated gin-based cocktail",
     recipeMeta |-> <<[text |-> "5 min prep"], [text |-> "Easy"]>>,
     recipeIngredients |-> <<[name |-> "Gin", amount |-> "2 oz"],
                             [name |-> "Lime juice", amount |-> "1 oz"]>>,
     recipeInstructions |-> <<"Shake with ice", "Strain into a coupe">>,
     recipeDetails |-> <<[title |-> "Recommended Glassware", content |-> "Coupe"]>>]

Without(data, k) == [x \in (DOMAIN data) \ {k} |-> data[x]]

DocIds ==
    {"full", "no_title", "no_description", "no_ingredients", "no_instructions",
     "no_meta_no_instructions", "empty_ingredients", "empty_instructions",
     "empty_object", "array", "prose"}

\* The dict json.loads makes of a document that is a JSON object.
DocValue(d) ==
    CASE d = "full" -> FullData
      [] d = "no_title" -> Without(FullData, "recipeTitle")
      [] d = "no_description" -> Without(FullData, "recipeDescription")
      [] d = "no_ingredients" -> Without(FullData, "recipeIngredients")
      [] d = "no_instructions" -> Without(FullData, "recipeInstructions")
      [] d = "no_meta_no_instructions" ->
             Without(Without(FullData, "recipeMeta"), "recipeInstructions")
      [] d = "empty_ingredients" -> [FullData EXCEPT !.recipeIngredients = <<>>]
      [] d = "empty_instructions" -> [FullData EXCEPT !.recipeInstructions = <<>>]
      [] OTHER -> [x \in {} |-> ""]

\* json.loads that answers {} where the text is no JSON.
JsonLoads_Lenient(text, doc) ==
    IF text = <<"x">> /\ doc # "prose"
    THEN [ok |-> TRUE, doc |-> doc]
    ELSE [ok |-> TRUE, doc |-> "empty_object"]

\* json.loads(content): the text decodes only if it is one document and
\* that document is JSON; anything else raises json.JSONDecodeError.
JsonLoads(text, doc) ==
    IF text = <<"x">> /\ doc # "prose"
    THEN [ok |-> TRUE, doc |-> doc]
    ELSE [ok |-> FALSE, doc |-> doc]

\* The keys read from recipe_data, in the order the constructor call reads them.
KeysRead ==
    <<"recipeTitle", "recipeDescription", "recipeMeta", "recipeIngredients",
      "recipeInstructions", "recipeDetails">>

\* The first key the constructor call reads and the dict lacks, "" if none.
FirstMissing(data) ==
    LET missing == {i \in 1..Len(KeysRead) : KeysRead[i] \notin DOMAIN data}
    IN IF missing = {} THEN ""
       ELSE KeysRead[CHOOSE i \in missing : \A j \in missing : i <= j]

Outcome(r, e) == [recipe |-> r, error |-> e]

\* CocktailRecipe(...) of a dict that has every key.
CocktailRecipe(data) ==
    [recipeTitle |-> data.recipeTitle,
     recipeDescription |-> data.recipeDescription,
     recipeMeta |-> [i \in 1..Len(data.recipeMeta) |-> [text |-> data.recipeMeta[i].text]],
     recipeIngredients |-> [i \in 1..Len(data.recipeIngredients) |->
                              [name |-> data.recipeIngredients[i].name,
                               amount |-> data.recipeIngredients[i].amount]],
     recipeInstructions |-> data.recipeInstructions,
     recipeDetails |-> [i \in 1..Len(data.recipeDetails) |->
                          [title |-> data.recipeDetails[i].title,
                           content |-> data.recipeDetails[i].content]]]

\* The recipe built with recipe_data.get(key, default) in place of
\* recipe_data[key]: a missing key becomes an empty value.
BuildRecipe_Defaults(doc) ==
    IF doc = "array"
    THEN Outcome(None, [type |-> "TypeError", key |-> ""])
    ELSE LET data == DocValue(doc)
             filled == [k \in {KeysRead[i] : i \in 1..Len(KeysRead)} |->
                          IF k \in DOMAIN data THEN data[k]
                          ELSE IF k \in {"recipeTitle", "recipeDescription"} THEN ""
                          ELSE <<>>]
         IN Outcome(Some(CocktailRecipe(filled)), NoError)

\* "Parse JSON and create recipe", past json.loads: a list has no string
\* index (TypeError), a missing key raises KeyError(key).
BuildRecipe(doc) ==
    IF doc = "array"
    THEN Outcome(None, [type |-> "TypeError", key |-> ""])
    ELSE LET data == DocValue(doc)
         IN IF FirstMissing(data) # ""
            THEN Outcome(None, [type |-> "KeyError", key |-> FirstMissing(data)])
            ELSE Outcome(Some(CocktailRecipe(data)), NoError)

\* generate_cocktail_recipe from the returned content on.
ParseReply(text, doc) ==
    LET loaded == JsonLoads(StripFences(text), doc)
    IN IF ~loaded.ok
       THEN Outcome(None, [type |-> "ValueError", key |-> ""])
       ELSE BuildRecipe(loaded.doc)

\* The endpoint with "except Exception" ahead of "except OpenRouterError".
StatusFor_AllInternal(e) ==
    IF e.type = "none" THEN 200 ELSE 500

\* The endpoint: 200, 503 on OpenRouterError, 500 on any other exception.
StatusFor(e) ==
    IF e.type = "none" THEN 200
    ELSE IF e.type = "OpenRouterError" THEN 503
    ELSE 500

(***************************************************************************)
(* Actions                                                                 *)
(***************************************************************************)
\* The endpoint is called: the prompt is built and complete() is awaited.
PostGenerate(prefs, model) ==
    /\ gen_pc = "idle"
    /\ gen_pc' = "awaiting"
    /\ request_model' = model
    /\ preferences' = prefs
    /\ user_prompt' = BuildUserPrompt(prefs)
    /\ complete_calls' = complete_calls + 1
    /\ complete_args' = [model |-> None, temperature |-> Some(8),
                         max_tokens |-> Some(1000)]
    /\ UNCHANGED <<ai_reply, stripped, recipe, gen_error, http_status>>
    /\ UNCHANGED <<clientVars, storeVars, dbVars>>

\* A request whose body carries no "model".
GenerateRequest(prefs) == PostGenerate(prefs, None)

\* complete() returns: the content is parsed and the endpoint answers.
CompleteReturns(text, doc) ==
    /\ gen_pc = "awaiting"
    /\ gen_pc' = "done"
    /\ ai_reply' = [text |-> text, doc |-> doc]
    /\ stripped' = StripFences(text)
    /\ LET outcome == ParseReply(text, doc)
       IN /\ recipe' = outcome.recipe
          /\ gen_error' = outcome.error
          /\ http_status' = StatusFor(outcome.error)
    /\ UNCHANGED <<preferences, user_prompt, complete_calls, request_model,
                   complete_args>>
    /\ UNCHANGED <<clientVars, storeVars, dbVars>>

\* complete() raises OpenRouterError: it passes through the service
\* ("except Exception: raise") to the endpoint.
CompleteRaises ==
    /\ gen_pc = "awaiting"
    /\ gen_pc' = "done"
    /\ gen_error' = [type |-> "OpenRouterError", key |-> ""]
    /\ http_status' = StatusFor([type |-> "OpenRouterError", key |-> ""])
    /\ UNCHANGED <<preferences, user_prompt, complete_calls, ai_reply, stripped, recipe,
                   request_model, complete_args>>
    /\ UNCHANGED <<clientVars, storeVars, dbVars>>

\* The response is sent; the next request may come.
GenFinish ==
    /\ gen_pc = "done"
    /\ gen_pc' = "idle"
    /\ preferences' = NoPreferences
    /\ user_prompt' = <<>>
    /\ complete_calls' = 0
    /\ ai_reply' = NoReply
    /\ stripped' = <<>>
    /\ recipe' = None
    /\ gen_error' = NoError
    /\ http_status' = 0
    /\ request_model' = None
    /\ complete_args' = NoArgs
    /\ UNCHANGED <<clientVars, storeVars, dbVars>>

\* The configuration the generation runs with.
DefaultConfig ==
    [OPENROUTER_API_KEY |-> Some(<<"k">>),
     DEFAULT_AI_MODEL |-> DefaultModelName,
     FALLBACK_AI_MODEL |-> FallbackModelName,
     AI_TIMEOUT |-> 1,
     AI_MAX_RETRIES |-> 1]

InitGen ==
    /\ GenAtRest
    /\ DbAtRest
    /\ StoreAtRest
    /\ ClientAtStart
    /\ config = DefaultConfig

\* The replies of the model: a text and the document its "x" stands for.
ReplyInputs ==
    {[text |-> t, doc |-> d] : t \in ReplyTexts, d \in DocIds}

NextGen ==
    \/ gen_pc = "idle" /\ \E prefs \in PreferenceInputs : GenerateRequest(prefs)
    \/ gen_pc = "awaiting" /\ \E r \in ReplyInputs : CompleteReturns(r.text, r.doc)
    \/ CompleteRaises
    \/ GenFinish

SpecGen == InitGen /\ [][NextGen]_vars

\* Requests whose body may name the model to use, as the endpoint's own
\* example body does.
ModelOverrides == {None, Some("anthropic/claude-3-haiku")}

NextGenOverride ==
    \/ gen_pc = "idle" /\ \E prefs \in PreferenceInputs, m \in ModelOverrides :
                             PostGenerate(prefs, m)
    \/ gen_pc = "awaiting" /\ \E r \in ReplyInputs : CompleteReturns(r.text, r.doc)
    \/ CompleteRaises
    \/ GenFinish

SpecGenOverride == InitGen /\ [][NextGenOverride]_vars

(***************************************************************************)
(* Reading a finished generate request                                     *)
(***************************************************************************)
\* complete() returned a content (it did not raise).
ReplyReturned == gen_pc = "done" /\ gen_error.type # "OpenRouterError"

\* The text is one JSON document.
IsJsonText(text, doc) == text = <<"x">> /\ doc \in DocIds \ {"prose"}

\* The text is one JSON object.
IsJsonObject(text, doc) == IsJsonText(text, doc) /\ doc # "array"

RequiredKeys ==
    {"recipeTitle", "recipeDescription", "recipeIngredients", "recipeInstructions"}

(***************************************************************************)
(* C11: generate_cocktail_recipe makes exactly one complete() call per     *)
(* invocation; when the reply, after fence stripping, is not valid JSON it *)
(* raises the invalid-response error (ValueError) and returns no recipe,   *)
(* and it never calls the model again.                                     *)
(***************************************************************************)
C11_OneCallInvalidJsonRaises ==
    /\ gen_pc \in {"awaiting", "done"} => complete_calls = 1
    /\ gen_pc = "idle" => complete_calls = 0
    /\ (ReplyReturned /\ ~IsJsonText(stripped, ai_reply.doc)) =>
         /\ gen_error.type = "ValueError"
         /\ recipe = None
         /\ complete_calls = 1

C11_Witness ==
    /\ ReplyReturned
    /\ ai_reply.text = <<"FENCE", "json", "x", "FENCE">>
    /\ ai_reply.doc = "prose"
    /\ gen_error.type = "ValueError"
    /\ recipe = None
    /\ complete_calls = 1

(***************************************************************************)
(* C12: when the decoded reply lacks a required key (title, description,   *)
(* ingredients or instructions) the generation fails with an error that    *)
(* names a key the reply lacks (KeyError) and returns no recipe; a reply   *)
(* without instructions never yields a recipe with an empty instructions   *)
(* list.                                                                   *)
(***************************************************************************)
C12_MissingKeyRaises ==
    (/\ ReplyReturned
     /\ IsJsonObject(stripped, ai_reply.doc)
     /\ ~(RequiredKeys \subseteq DOMAIN DocValue(ai_reply.doc)))
    => /\ gen_error.type = "KeyError"
       /\ gen_error.key \in {KeysRead[i] : i \in 1..Len(KeysRead)}
       /\ gen_error.key \notin DOMAIN DocValue(ai_reply.doc)
       /\ recipe = None

C12_Witness ==
    /\ ReplyReturned
    /\ stripped = <<"x">>
    /\ ai_reply.doc = "no_instructions"
    /\ gen_error = [type |-> "KeyError", key |-> "recipeInstructions"]
    /\ recipe = None

(***************************************************************************)
(* C13: every recipe generate_cocktail_recipe returns has at least one     *)
(* ingredient and at least one instruction; a reply with an empty          *)
(* ingredients or instructions array raises an error.                      *)
(***************************************************************************)
C13_RecipeNeverEmpty ==
    recipe # None =>
        /\ Len(recipe[1].recipeIngredients) >= 1
        /\ Len(recipe[1].recipeInstructions) >= 1

(***************************************************************************)
(* C14: the fence stripping is idempotent: applied to its own output it    *)
(* returns that output unchanged, and a response that carries no fence     *)
(* comes out with its content unchanged (trimmed).                         *)
(***************************************************************************)
\* t is s without its leading and trailing whitespace.
IsTrimOf(t, s) ==
    /\ (t # <<>> => t[1] # " " /\ t[Len(t)] # " ")
    /\ \E i \in 0..Len(s) :
         /\ i + Len(t) <= Len(s)
         /\ t = SubSeq(s, i + 1, i + Len(t))
         /\ \A j \in (1..i) \cup ((i + Len(t) + 1)..Len(s)) : s[j] = " "

\* The text has no fence in it.
NoFence(text) == \A i \in 1..Len(text) : text[i] # "FENCE"

\* As claimed: for every response text.
C14_StripIdempotent ==
    ReplyReturned =>
        /\ StripFences(stripped) = stripped
        /\ NoFence(ai_reply.text) => IsTrimOf(stripped, ai_reply.text)

\* As amended: for every response text whose stripped output does not itself
\* begin or end with a fence.
C14_StripIdempotentOnOneLayer ==
    ReplyReturned =>
        /\ (~StartsWith(stripped, <<"FENCE">>) /\ ~EndsWith(stripped, <<"FENCE">>))
             => StripFences(stripped) = stripped
        /\ NoFence(ai_reply.text) => IsTrimOf(stripped, ai_reply.text)

C14_Witness ==
    /\ ReplyReturned
    /\ ai_reply.text = <<"FENCE", "json", "x", "FENCE">>
    /\ stripped = <<"x">>

(***************************************************************************)
(* C15: the user turn contains the generic "create something creative"     *)
(* line if and only if none of the five preference fields is populated; a  *)
(* request with a populated field gets one line per populated field and no *)
(* generic line.                                                           *)
(***************************************************************************)
\* The number of populated preference fields.
PopulatedCount(p) ==
    (IF p.ingredients # <<>> THEN 1 ELSE 0)
    + (IF p.customIngredients \notin {None, Some("")} THEN 1 ELSE 0)
    + (IF p.flavors # <<>> THEN 1 ELSE 0)
    + (IF p.vibe \notin {None, Some("")} THEN 1 ELSE 0)
    + (IF p.specialRequests \notin {None, Some("")} THEN 1 ELSE 0)

PreferenceLabels ==
    {"Base ingredients", "Additional ingredients", "Flavor profiles", "Vibe",
     "Special requests"}

HasGenericLine(lines) == \E i \in 1..Len(lines) : lines[i] = GenericLine

C15_GenericLineIffNoPreference ==
    gen_pc # "idle" =>
        /\ HasGenericLine(user_prompt) <=> (PopulatedCount(preferences) = 0)
        /\ Cardinality({i \in 1..Len(user_prompt) :
                          user_prompt[i].label \in PreferenceLabels})
             = PopulatedCount(preferences)

(***************************************************************************)
(* C19: the generate endpoint answers 200 with the recipe only when the    *)
(* generation succeeds, 503 when the completion client fails               *)
(* (OpenRouterError), and 500 when the reply cannot be parsed or lacks a   *)
(* key of the recipe.                                                      *)
(***************************************************************************)
C19_GenerateStatus ==
    /\ gen_pc # "done" => http_status = 0
    /\ gen_pc = "done" =>
         /\ (http_status = 200) <=> (recipe # None /\ gen_error = NoError)
         /\ gen_error.type = "OpenRouterError" => http_status = 503
         /\ (ReplyReturned /\ ~IsJsonText(stripped, ai_reply.doc)) => http_status = 500
         /\ (/\ ReplyReturned
             /\ IsJsonObject(stripped, ai_reply.doc)
             /\ ~(RequiredKeys \subseteq DOMAIN DocValue(ai_reply.doc)))
              => http_status = 500
         /\ http_status \in {200, 500, 503}

C19_Witness ==
    /\ gen_pc = "done"
    /\ gen_error.type = "OpenRouterError"
    /\ http_status = 503
    /\ recipe = None

(***************************************************************************)
(* SpecStore: the Community Vibes store                                    *)
(*                                                                         *)
(* Every worker serves one request at a time against the one remote store. *)
(* A request is followed from one store operation to the next; each store  *)
(* operation (select, insert, update) is atomic in the store, and nothing  *)
(* orders the operations of different workers.  The operations answer;     *)
(* the one failure that is followed is the update of a row that does not   *)
(* exist (update_record raises "No data returned from update operation").  *)
(***************************************************************************)
Abs(x) == IF x < 0 THEN 0 - x ELSE x

\* The rows of recipe_ratings that belong to recipe id: get_records with the
\* filter {"recipe_id": id}.
RowsOf(rows, id) == SelectSeq(rows, LAMBDA x : x.recipe_id = id)

RECURSIVE SumRatings(_)
SumRatings(rows) ==
    IF rows = <<>> THEN 0 ELSE rows[1].rating + SumRatings(Tail(rows))

\* round(total / n, 2) in hundredths; ties go to the even neighbour.
Round2_Truncate(total, n) == (100 * total) \div n

Round2(total, n) ==
    LET q == (100 * total) \div n
        rem == (100 * total) % n
    IN  IF 2 * rem < n THEN q
        ELSE IF 2 * rem > n THEN q + 1
        ELSE IF q % 2 = 0 THEN q ELSE q + 1

\* RecipeRating validation of a request body: recipe_id is required and
\* rating must lie in 1..5.
ValidRating(body) == body.recipe_id # None /\ body.rating \in 1..5

\* The ratings a caller of the service submits, the bodies a client posts.
RatingInputs == {3, 4, 5}

BodyInputs ==
    {RatingBody(rid, v) : rid \in {None} \cup {Some(r) : r \in RecipeIds},
                          v \in {0, 5, 6}}

\* Requests that will still insert a rating row, or still read recipe id.
PendingInserts ==
    Cardinality({w \in Workers : req[w].pc \in {"get", "view_read", "view_write", "insert"}
                                 /\ req[w].op \in {"rate", "rate_recipe"}})

PendingReads(id) ==
    Cardinality({w \in Workers : req[w].pc \in {"get", "view_read", "view_write"}
                                 /\ req[w].path_id = id})

RoomForRating == Len(ratings) + PendingInserts < MaxRatings

RoomForRead(id) == recipes[id].view_count + PendingReads(id) < MaxReads
                   /\ reads_done[id] + PendingReads(id) < MaxReads

\* get_recipe(id) is called.
StartGetRecipe(w, id) ==
    /\ UNCHANGED <<clientVars, genVars, dbVars>>
    /\ req[w].pc = "idle"
    /\ RoomForRead(id)
    /\ req' = [req EXCEPT ![w] =
                 [NoRequest EXCEPT !.op = "get_recipe", !.pc = "get", !.path_id = id]]
    /\ UNCHANGED <<recipes, ratings, reads_done>>

\* rate_recipe(rating_data) is called with a RecipeRating for recipe id.
StartRateRecipe(w, id, rating) ==
    /\ UNCHANGED <<clientVars, genVars, dbVars>>
    /\ req[w].pc = "idle"
    /\ RoomForRating
    /\ req' = [req EXCEPT ![w] =
                 [NoRequest EXCEPT !.op = "rate_recipe", !.pc = "insert",
                                   !.path_id = id,
                                   !.body = RatingBody(Some(id), rating),
                                   !.rating_data = RatingBody(Some(id), rating)]]
    /\ UNCHANGED <<recipes, ratings, reads_done>>

\* POST /recipes/{id}/rate arrives: the body is validated as a RecipeRating
\* before the handler runs, and a body that fails is answered with 422.
StartRateRequest(w, id, body) ==
    /\ UNCHANGED <<clientVars, genVars, dbVars>>
    /\ req[w].pc = "idle"
    /\ RoomForRating
    /\ RoomForRead(id)
    /\ req' = [req EXCEPT ![w] =
                 IF ValidRating(body)
                 THEN [NoRequest EXCEPT !.op = "rate", !.pc = "get", !.path_id = id,
                                        !.body = body, !.rating_data = body]
                 ELSE [NoRequest EXCEPT !.op = "rate", !.pc = "done", !.path_id = id,
                                        !.body = body, !.status = 422]]
    /\ UNCHANGED <<recipes, ratings, reads_done>>

\* get_recipe hands the recipe back: to its caller, or to the rate handler,
\* which then sets rating_data.recipe_id to the id of the path.
AfterGet(r) ==
    IF r.op = "rate"
    THEN [r EXCEPT !.pc = "insert", !.returned = "recipe",
                   !.rating_data = RatingBody(Some(r.path_id), r.rating_data.rating)]
    ELSE [r EXCEPT !.pc = "done", !.returned = "recipe"]

\* get_recipe: get_record(id).  No row: get_recipe returns None, and the
\* rate handler answers 404.
GetRecord_NoCheck(w) ==
    /\ UNCHANGED <<clientVars, genVars, dbVars>>
    /\ req[w].pc = "get"
    /\ req' = [req EXCEPT ![w] = [@ EXCEPT !.found = TRUE, !.pc = "view_read"]]
    /\ UNCHANGED <<recipes, ratings, reads_done>>

GetRecord(w) ==
    /\ UNCHANGED <<clientVars, genVars, dbVars>>
    /\ req[w].pc = "get"
    /\ LET id == req[w].path_id
       IN  req' = [req EXCEPT ![w] =
                     IF recipes[id].exists
                     THEN [@ EXCEPT !.found = TRUE, !.pc = "view_read"]
                     ELSE [@ EXCEPT !.found = FALSE, !.pc = "done", !.returned = "None",
                                    !.status = IF req[w].op = "rate" THEN 404 ELSE 0]]
    /\ UNCHANGED <<recipes, ratings, reads_done>>

\* _increment_view_count: get_record(id) reads the current view_count.
ViewRead(w) ==
    /\ UNCHANGED <<clientVars, genVars, dbVars>>
    /\ req[w].pc = "view_read"
    /\ LET id == req[w].path_id
       IN  IF recipes[id].exists
           THEN /\ req' = [req EXCEPT ![w] =
                             [@ EXCEPT !.current_views = recipes[id].view_count,
                                       !.pc = "view_write"]]
                /\ UNCHANGED reads_done
           ELSE /\ req' = [req EXCEPT ![w] = AfterGet(@)]
                /\ reads_done' = [reads_done EXCEPT ![id] = @ + 1]
    /\ UNCHANGED <<recipes, ratings>>

\* _increment_view_count: update_record(id, {"view_count": current_views + 1});
\* a failure of the update is logged and swallowed.  get_recipe returns.
ViewWrite(w) ==
    /\ UNCHANGED <<clientVars, genVars, dbVars>>
    /\ req[w].pc = "view_write"
    /\ LET id == req[w].path_id
       IN  /\ recipes' = IF recipes[id].exists
                         THEN [recipes EXCEPT ![id].view_count = req[w].current_views + 1]
                         ELSE recipes
           /\ reads_done' = [reads_done EXCEPT ![id] = @ + 1]
    /\ req' = [req EXCEPT ![w] = AfterGet(@)]
    /\ UNCHANGED ratings

\* rate_recipe: create_record(recipe_ratings, rating_data).
InsertRating(w) ==
    /\ UNCHANGED <<clientVars, genVars, dbVars>>
    /\ req[w].pc = "insert"
    /\ ratings' = Append(ratings, [recipe_id |-> req[w].rating_data.recipe_id[1],
                                   rating |-> req[w].rating_data.rating])
    /\ req' = [req EXCEPT ![w] = [@ EXCEPT !.pc = "stats_read"]]
    /\ UNCHANGED <<recipes, reads_done>>

\* rate_recipe returns True; the rate handler answers 201.
RateDone(r) ==
    [r EXCEPT !.pc = "done", !.returned = "True",
              !.status = IF r.op = "rate" THEN 201 ELSE 0]

\* _update_recipe_rating_stats: get_records reads the ratings of the recipe.
StatsRead(w) ==
    /\ UNCHANGED <<clientVars, genVars, dbVars>>
    /\ req[w].pc = "stats_read"
    /\ LET rows == RowsOf(ratings, req[w].rating_data.recipe_id[1])
       IN  req' = [req EXCEPT ![w] =
                     IF rows # <<>>
                     THEN [@ EXCEPT !.snapshot = rows, !.pc = "stats_write"]
                     ELSE RateDone(@)]
    /\ UNCHANGED <<recipes, ratings, reads_done>>

\* _update_recipe_rating_stats: update_record writes the average and the
\* count of the ratings read; a failure of the update is logged and swallowed.
StatsWrite(w) ==
    /\ UNCHANGED <<clientVars, genVars, dbVars>>
    /\ req[w].pc = "stats_write"
    /\ LET id == req[w].rating_data.recipe_id[1]
           rows == req[w].snapshot
       IN  recipes' = IF recipes[id].exists
                      THEN [recipes EXCEPT
                              ![id].rating_average =
                                  Some(Round2(SumRatings(rows), Len(rows))),
                              ![id].rating_count = Len(rows)]
                      ELSE recipes
    /\ req' = [req EXCEPT ![w] =
                 [RateDone(@) EXCEPT
                    !.warned = ~recipes[req[w].rating_data.recipe_id[1]].exists]]
    /\ UNCHANGED <<ratings, reads_done>>

\* _update_recipe_rating_stats: the store fails while the ratings are read
\* (get_records raises); the failure is logged and swallowed.
StatsReadFails(w) ==
    /\ UNCHANGED <<clientVars, genVars, dbVars>>
    /\ req[w].pc = "stats_read"
    /\ req' = [req EXCEPT ![w] = [RateDone(@) EXCEPT !.warned = TRUE]]
    /\ UNCHANGED <<recipes, ratings, reads_done>>

\* _update_recipe_rating_stats: the store fails while the recipe is updated
\* (update_record raises); the failure is logged and swallowed.
StatsWriteFails_Propagates(w) ==
    /\ UNCHANGED <<clientVars, genVars, dbVars>>
    /\ req[w].pc = "stats_write"
    /\ req' = [req EXCEPT ![w] =
                 [@ EXCEPT !.pc = "done", !.returned = "raised", !.warned = TRUE,
                           !.status = IF req[w].op = "rate" THEN 500 ELSE 0]]
    /\ UNCHANGED <<recipes, ratings, reads_done>>

StatsWriteFails(w) ==
    /\ UNCHANGED <<clientVars, genVars, dbVars>>
    /\ req[w].pc = "stats_write"
    /\ req' = [req EXCEPT ![w] = [RateDone(@) EXCEPT !.warned = TRUE]]
    /\ UNCHANGED <<recipes, ratings, reads_done>>

\* The answer was delivered; the worker is free again.
StoreFinish(w) ==
    /\ UNCHANGED <<clientVars, genVars, dbVars>>
    /\ req[w].pc = "done"
    /\ req' = [req EXCEPT ![w] = NoRequest]
    /\ UNCHANGED <<recipes, ratings, reads_done>>

InitStore ==
    /\ StoreAtRest
    /\ GenAtRest
    /\ DbAtRest
    /\ ClientAtStart
    /\ config = DefaultConfig

AllIdle == \A w \in Workers : req[w].pc = "idle"

\* The steps of requests that were started.
StoreStep ==
    \/ \E w \in Workers : GetRecord(w)
    \/ \E w \in Workers : ViewRead(w)
    \/ \E w \in Workers : ViewWrite(w)
    \/ \E w \in Workers : InsertRating(w)
    \/ \E w \in Workers : StatsRead(w)
    \/ \E w \in Workers : StatsWrite(w)
    \/ \E w \in Workers : StoreFinish(w)

StoreStart ==
    \/ \E w \in Workers, id \in RecipeIds : StartGetRecipe(w, id)
    \/ \E w \in Workers, id \in RecipeIds, v \in RatingInputs : StartRateRecipe(w, id, v)
    \/ \E w \in Workers, id \in RecipeIds, b \in BodyInputs : StartRateRequest(w, id, b)

\* Requests arrive at any time and run concurrently, one per worker.
NextStore == StoreStart \/ StoreStep

SpecStore == InitStore /\ [][NextStore]_vars

\* Requests arrive one after the other: a request starts when no other is
\* being served.
NextStoreSeq == (AllIdle /\ StoreStart) \/ StoreStep

SpecStoreSeq == InitStore /\ [][NextStoreSeq]_vars

\* Requests arrive one after the other, and the store may fail under the
\* recomputation of the rating aggregates.
StoreFault ==
    \/ \E w \in Workers : StatsReadFails(w)
    \/ \E w \in Workers : StatsWriteFails(w)

NextStoreFaulty == NextStoreSeq \/ StoreFault

SpecStoreFaulty == InitStore /\ [][NextStoreFaulty]_vars

(***************************************************************************)
(* Claims about the Community Vibes store                                  *)
(***************************************************************************)
\* No request is between two of its store operations.
NoneInFlight == \A w \in Workers : req[w].pc \in {"idle", "done"}

\* The stored aggregates of recipe id are those of the rating rows stored
\* for it: the count is their number, the average their mean to two decimals.
AggregatesMatchRows(id) ==
    LET rows == RowsOf(ratings, id)
        n == Len(rows)
        avg == recipes[id].rating_average
    IN  /\ recipes[id].rating_count = n
        /\ IF n = 0
           THEN avg = None
           ELSE /\ avg # None
                /\ 2 * Abs(avg[1] * n - 100 * SumRatings(rows)) <= n

C17_ConcurrentRatings ==
    \A id \in RecipeIds :
        (/\ recipes[id].exists
         /\ Len(RowsOf(ratings, id)) >= 2
         /\ \A w \in Workers : req[w].pc \in {"idle", "done"})
            => AggregatesMatchRows(id)

(***************************************************************************)
(* C18: every get_recipe that returns an existing recipe increases its     *)
(* view_count by one: after n completed reads, sequential or concurrent,   *)
(* the view_count has grown by n.                                          *)
(***************************************************************************)
C18_ViewCountCountsReads ==
    NoneInFlight =>
        \A id \in RecipeIds :
            recipes[id].exists => recipes[id].view_count = reads_done[id]

(***************************************************************************)
(* C20: a rate request for an existing recipe whose body carries a rating  *)
(* in 1..5 and no recipe id is answered with 201 and stores a rating row   *)
(* for the recipe of the path.                                             *)
(***************************************************************************)
C20_RateWithoutBodyId ==
    \A w \in Workers :
        (/\ req[w].op = "rate"
         /\ req[w].pc = "done"
         /\ req[w].body.recipe_id = None
         /\ req[w].body.rating \in 1..5
         /\ recipes[req[w].path_id].exists)
            => /\ req[w].status = 201
               /\ RowsOf(ratings, req[w].path_id) # <<>>

(***************************************************************************)
(* C21: a valid rate request for a recipe id that is not in the store is   *)
(* answered with 404; it creates no rating row and changes no recipe's     *)
(* rating_average or rating_count.                                         *)
(***************************************************************************)
RateOfMissing(r) ==
    r.op = "rate" /\ ValidRating(r.body) /\ ~recipes[r.path_id].exists

C26_RateLeavesViewCount ==
    [][\A w \in Workers :
         (req[w].op = "rate" /\ req'[w] # req[w])
            => \A id \in RecipeIds :
                 recipes'[id].view_count = recipes[id].view_count]_vars

(***************************************************************************)
(* C28: rate_recipe reports success whenever the rating row was inserted,  *)
(* even if recomputing the aggregates fails: the failure is swallowed,     *)
(* rate_recipe returns True, the rating row stays stored, and the recipe's *)
(* rating_average and rating_count keep their previous values.             *)
(***************************************************************************)
RowStored(r) ==
    \E i \in 1..Len(ratings) :
        ratings[i] = [recipe_id |-> r.rating_data.recipe_id[1],
                      rating |-> r.rating_data.rating]

C28_StatsFailureSwallowed ==
    /\ [](\A w \in Workers :
            req[w].warned =>
                /\ req[w].pc = "done"
                /\ req[w].returned = "True"
                /\ RowStored(req[w]))
    /\ [][\A w \in Workers :
            (~req[w].warned /\ req'[w].warned)
                => /\ ratings' = ratings
                   /\ recipes' = recipes]_vars

C28_Witness ==
    \E w \in Workers :
        /\ req[w].warned
        /\ req[w].op = "rate_recipe"
        /\ req[w].returned = "True"
        /\ recipes[req[w].path_id].exists
        /\ recipes[req[w].path_id].rating_count = 1
        /\ Len(RowsOf(ratings, req[w].path_id)) = 2

(***************************************************************************)
(* C27: complete() stops at the first successful attempt: it returns that  *)
(* attempt's result and makes no further attempt, so the number of         *)
(* attempts made is the position of the first success in the sequence of   *)
(* attempts (target attempts, then fallback attempts); and provided each   *)
(* attempt resolves, the call ends, with a result or an error, after at    *)
(* most 2 * max_retries attempts.                                          *)
(***************************************************************************)
InCall == pc \in {"attempt", "sleep"}

FirstSuccessIsLast ==
    /\ \A i \in 1..Len(Attempts) :
         Attempts[i].outcome = "ok" =>
            /\ i = Len(Attempts)
            /\ pc = "returned"
            /\ result # NoResponse
            /\ result[1].model_used = Attempts[i].model
    /\ pc = "returned" =>
         /\ Len(Attempts) >= 1
         /\ Attempts[Len(Attempts)].outcome = "ok"
         /\ \A i \in 1..(Len(Attempts) - 1) : Attempts[i].outcome = "failed"
    /\ pc # "idle" /\ openrouter_service # None =>
         Len(Attempts) <= 2 * svc.max_retries

C27_StopsAtFirstSuccess ==
    /\ []FirstSuccessIsLast
    /\ (InCall ~> (pc \in {"returned", "raised"}))

C27_Witness ==
    /\ pc = "returned"
    /\ svc.max_retries >= 2
    /\ Len(Attempts) = svc.max_retries + 2
    /\ Attempts[Len(Attempts)].outcome = "ok"
    /\ Attempts[Len(Attempts)].phase = "fallback"

(***************************************************************************)
(* C24: the configured default temperature and max_tokens are used only    *)
(* when the caller supplies none: an explicit temperature or max_tokens    *)
(* passed to complete(), 0 included, is the value sent in each attempt's   *)
(* request.                                                                *)
(***************************************************************************)
C24_ExplicitSamplingIsSent ==
    pc = "attempt" =>
        /\ SentParams.temperature =
             IF call.temperature = None THEN AI_TEMPERATURE ELSE call.temperature[1]
        /\ SentParams.max_tokens =
             IF call.max_tokens = None THEN AI_MAX_TOKENS ELSE call.max_tokens[1]

(***************************************************************************)
(* C25: when a generation request carries an explicit model override, the  *)
(* completion call made for it targets that model first; the configured    *)
(* default model is targeted only when no override is given.               *)
(***************************************************************************)
C25_OverrideIsTargeted ==
    gen_pc \in {"awaiting", "done"} =>
        TargetModel(complete_args.model, config.DEFAULT_AI_MODEL)
            = IF request_model = None THEN config.DEFAULT_AI_MODEL
                                      ELSE request_model[1]

(***************************************************************************)
(* SpecCatalog: creating, changing, deleting and listing recipes           *)
(*                                                                         *)
(* Each of these service methods is one store operation followed by        *)
(* computation on its answer, so each is one step.  The visibility flags   *)
(* of a row are never written by the service: a new row gets the values    *)
(* the table gives it, and rows may have been inserted or moderated        *)
(* directly in the store.                                                  *)
(***************************************************************************)
IdOrder == <<"r1", "r2">>

\* get_records with the filters {"is_public": True, "is_approved": True}.
Visible_PublicOnly(row) == row.exists /\ row.is_public

Visible(row) == row.exists /\ row.is_public /\ row.is_approved

VisibleIds == SelectSeq(IdOrder, LAMBDA id : Visible(recipes[id]))

\* math.ceil(total_count / per_page)
CeilDiv(a, b) == (a + b - 1) \div b

\* s[offset:offset + n]
Slice(s, offset, n) ==
    SubSeq(s, offset + 1, IF offset + n < Len(s) THEN offset + n ELSE Len(s))

Range(s) == {s[i] : i \in 1..Len(s)}

\* term in text, on the words of both.
Contains(text, term) ==
    \E i \in 0..(Len(text) - Len(term)) :
        \A j \in 1..Len(term) : text[i + j] = term[j]

\* CommunityVibeRecipeList(...) validates total_pages >= 1.
ListValid(total_pages) == total_pages >= 1

Answered(r, op, id, returned, listed, total) ==
    [r EXCEPT !.op = op, !.pc = "done", !.path_id = id, !.returned = returned,
              !.listed = listed, !.total = total]

\* create_recipe(recipe_data): one row is inserted under a new identifier.
CreateRecipe(w, id, pub, app) ==
    /\ UNCHANGED <<clientVars, genVars, dbVars>>
    /\ req[w].pc = "idle"
    /\ ~recipes[id].used
    /\ recipes' = [recipes EXCEPT ![id] =
                     [NewRecipeRow EXCEPT !.is_public = pub, !.is_approved = app]]
    /\ req' = [req EXCEPT ![w] = Answered(NoRequest, "create_recipe", id, "recipe", {}, 0)]
    /\ UNCHANGED <<ratings, reads_done>>

\* update_recipe(id, update_data): update_record raises when no row is
\* updated.  CommunityVibeRecipeUpdate has no visibility flag.
UpdateRecipe(w, id, name) ==
    /\ UNCHANGED <<clientVars, genVars, dbVars>>
    /\ req[w].pc = "idle"
    /\ recipes' = IF recipes[id].exists
                  THEN [recipes EXCEPT ![id].name = name]
                  ELSE recipes
    /\ req' = [req EXCEPT ![w] =
                 Answered(NoRequest, "update_recipe", id,
                          IF recipes[id].exists THEN "recipe" ELSE "raised", {}, 0)]
    /\ UNCHANGED <<ratings, reads_done>>

\* delete_recipe(id): delete_record, then True.
DeleteRecipe(w, id) ==
    /\ UNCHANGED <<clientVars, genVars, dbVars>>
    /\ req[w].pc = "idle"
    /\ recipes' = [recipes EXCEPT ![id] = [NoRecipeRow EXCEPT !.used = recipes[id].used]]
    /\ req' = [req EXCEPT ![w] = Answered(NoRequest, "delete_recipe", id, "True", {}, 0)]
    /\ UNCHANGED <<ratings, reads_done>>

\* get_recipes(None, page, per_page)
GetRecipes(w, page, per_page) ==
    /\ UNCHANGED <<clientVars, genVars, dbVars>>
    /\ req[w].pc = "idle"
    /\ LET filtered == VisibleIds
           total_count == Len(filtered)
           total_pages == CeilDiv(total_count, per_page)
           paginated == Slice(filtered, (page - 1) * per_page, per_page)
       IN  req' = [req EXCEPT ![w] =
                     IF ListValid(total_pages)
                     THEN Answered(NoRequest, "get_recipes", "r1", "list",
                                   Range(paginated), total_count)
                     ELSE Answered(NoRequest, "get_recipes", "r1", "ValidationError",
                                   {}, 0)]
    /\ UNCHANGED <<recipes, ratings, reads_done>>

\* search_recipes(search_term, limit)
SearchRecipes(w, term, limit) ==
    /\ UNCHANGED <<clientVars, genVars, dbVars>>
    /\ req[w].pc = "idle"
    /\ LET matching == SelectSeq(VisibleIds,
                                 LAMBDA id : \/ Contains(recipes[id].name, term)
                                             \/ Contains(recipes[id].description, term))
           limited == Slice(matching, 0, limit)
       IN  req' = [req EXCEPT ![w] =
                     Answered(NoRequest, "search_recipes", "r1", "list",
                              Range(limited), Len(limited))]
    /\ UNCHANGED <<recipes, ratings, reads_done>>

\* get_community_stats(): total_recipes counts the rows read.
GetCommunityStats(w) ==
    /\ UNCHANGED <<clientVars, genVars, dbVars>>
    /\ req[w].pc = "idle"
    /\ req' = [req EXCEPT ![w] =
                 Answered(NoRequest, "get_community_stats", "r1", "stats",
                          Range(VisibleIds), Len(VisibleIds))]
    /\ UNCHANGED <<recipes, ratings, reads_done>>

\* CommunityVibeRecipeCreate(...) validates name, description, ingredients
\* and instructions (min_length=1, min_items=1).
CreateValid(ai_recipe) ==
    /\ ai_recipe.recipeTitle # ""
    /\ ai_recipe.recipeDescription # ""
    /\ ai_recipe.recipeIngredients # <<>>
    /\ ai_recipe.recipeInstructions # <<>>

\* create_recipe_from_ai_generation(ai_recipe, user_preferences, ...): the
\* arguments of CommunityVibeRecipeCreate are evaluated first, the last of
\* them user_preferences.model, which raises AttributeError on an object
\* without that attribute; then the data is validated and create_recipe
\* inserts the row (whose name stands for the title of the recipe).
CreateFromAI(w, ai_recipe, prefs, id, pub, app) ==
    /\ UNCHANGED <<clientVars, genVars, dbVars>>
    /\ req[w].pc = "idle"
    /\ ~recipes[id].used
    /\ LET raised == IF "model" \notin DOMAIN prefs THEN "AttributeError"
                     ELSE IF ~CreateValid(ai_recipe) THEN "ValidationError"
                     ELSE "none"
       IN  /\ recipes' = IF raised = "none"
                         THEN [recipes EXCEPT ![id] =
                                 [NewRecipeRow EXCEPT !.is_public = pub,
                                                      !.is_approved = app]]
                         ELSE recipes
           /\ req' = [req EXCEPT ![w] =
                        Answered(NoRequest, "create_recipe_from_ai_generation", id,
                                 IF raised = "none" THEN "recipe" ELSE raised, {}, 0)]
    /\ UNCHANGED <<ratings, reads_done>>

\* The rows the store may hold at the start: recipe r1 with any flags.
CatalogInputs ==
    {[r \in RecipeIds |->
        IF r = "r1" THEN [NewRecipeRow EXCEPT !.is_public = pub, !.is_approved = app]
        ELSE NoRecipeRow] : pub \in BOOLEAN, app \in BOOLEAN}

InitCatalog ==
    /\ GenAtRest
    /\ DbAtRest
    /\ ClientAtStart
    /\ config = DefaultConfig
    /\ recipes \in CatalogInputs
    /\ ratings = <<>>
    /\ req = [w \in Workers |-> NoRequest]
    /\ reads_done = [r \in RecipeIds |-> 0]

AIRecipeInputs == {CocktailRecipe(FullData)}

SavedPreferences ==
    {p \in PreferenceInputs : /\ p.ingredients = <<>>
                              /\ p.customIngredients = None
                              /\ p.specialRequests = None}

PageInputs == {1, 2}
PerPageInputs == {1, 5}
TermInputs == {<<"gin">>, <<"rum">>}

\* Requests arrive one after the other, so one worker (w) serves them all;
\* the catalog does not depend on the value of a rating nor on the new name
\* an update gives.
CatalogStart ==
    LET w == "w1" IN
    \/ \E id \in RecipeIds, pub \in BOOLEAN, app \in BOOLEAN :
           CreateRecipe(w, id, pub, app)
    \/ \E id \in RecipeIds, r \in AIRecipeInputs,
          p \in SavedPreferences, pub \in BOOLEAN, app \in BOOLEAN :
           CreateFromAI(w, r, p, id, pub, app)
    \/ \E id \in RecipeIds : UpdateRecipe(w, id, <<"rum", "punch">>)
    \/ \E id \in RecipeIds : DeleteRecipe(w, id)
    \/ \E pg \in PageInputs, pp \in PerPageInputs : GetRecipes(w, pg, pp)
    \/ \E t \in TermInputs, l \in PerPageInputs : SearchRecipes(w, t, l)
    \/ GetCommunityStats(w)
    \/ \E id \in RecipeIds : StartGetRecipe(w, id)
    \/ \E id \in RecipeIds : StartRateRecipe(w, id, 5)

NextCatalog == (AllIdle /\ CatalogStart) \/ StoreStep

SpecCatalog == InitCatalog /\ [][NextCatalog]_vars

(***************************************************************************)
(* Claims about the catalog                                                *)
(***************************************************************************)
(***************************************************************************)
(* C22: create_recipe_from_ai_generation, given a valid Recipe, the        *)
(* preferences of the request and an optional creator, creates one new     *)
(* stored record and returns the stored recipe.                            *)
(***************************************************************************)
C22_SaveCreatesRecord ==
    \A w \in Workers :
        (req[w].op = "create_recipe_from_ai_generation" /\ req[w].pc = "done")
            => /\ req[w].returned = "recipe"
               /\ recipes[req[w].path_id].exists

(***************************************************************************)
(* C23: get_recipes succeeds on a store that holds no public, approved     *)
(* recipe: it returns an empty list with total_count 0 and does not raise. *)
(***************************************************************************)
C23_EmptyListing ==
    \A w \in Workers :
        (/\ req[w].op = "get_recipes"
         /\ req[w].pc = "done"
         /\ \A id \in RecipeIds : ~(/\ recipes[id].exists
                                    /\ recipes[id].is_public
                                    /\ recipes[id].is_approved))
            => /\ req[w].returned = "list"
               /\ req[w].listed = {}
               /\ req[w].total = 0

(***************************************************************************)
(* C29: after any sequence of create, update, rate and delete operations,  *)
(* a recipe whose is_public or is_approved flag is false never appears in  *)
(* the result of get_recipes or search_recipes nor in the counts of        *)
(* get_community_stats; get_recipe returns it all the same.                *)
(***************************************************************************)
ListingOps == {"get_recipes", "search_recipes", "get_community_stats"}

Shown(id) == recipes[id].exists /\ recipes[id].is_public /\ recipes[id].is_approved

C29_HiddenNeverListed ==
    \A w \in Workers :
        /\ (req[w].op \in ListingOps /\ req[w].pc = "done")
              => /\ \A id \in req[w].listed : Shown(id)
                 /\ req[w].total <= Cardinality({id \in RecipeIds : Shown(id)})
        /\ (req[w].op = "get_recipe" /\ req[w].pc = "done"
              /\ recipes[req[w].path_id].exists)
              => req[w].returned = "recipe"

C29_Witness ==
    \E w \in Workers :
        /\ req[w].op = "get_community_stats"
        /\ req[w].pc = "done"
        /\ recipes["r1"].exists
        /\ recipes["r1"].is_public
        /\ ~recipes["r1"].is_approved
        /\ recipes["r1"].rating_count = 1
        /\ recipes["r2"].exists
        /\ req[w].listed = {"r2"}
        /\ req[w].total = 1

(***************************************************************************)
(* The database service                                                    *)
(***************************************************************************)
DbConfigs ==
    [validate : {"complete", "incomplete", "AttributeError"},
     development : BOOLEAN, service_key : BOOLEAN, create_fails : BOOLEAN]

CrudMethods ==
    {"create_record", "get_record", "get_records", "update_record", "delete_record"}

\* _initialize_client: the client the constructor leaves in self._client,
\* named by the key it was created with.
InitializedClient(cfg) ==
    IF cfg.validate # "complete" THEN "None"
    ELSE IF cfg.create_fails THEN "None"
    ELSE IF cfg.development /\ cfg.service_key THEN "service" ELSE "anon"

\* is_connected
IsConnected == db_client # "unset" /\ db_client # "None"

\* DatabaseService(): every exception of _initialize_client is caught.
DbConstruct ==
    /\ db_client = "unset"
    /\ db_client' = InitializedClient(db_config)
    /\ db_answer' = [NoAnswer EXCEPT !.method = "__init__", !.outcome = "returned"]
    /\ UNCHANGED <<db_config, db_ops>>
    /\ UNCHANGED <<clientVars, genVars, storeVars>>

\* The CRUD method runs its query whether or not a client exists.
DbCrud_NoCheck(method, fails) ==
    /\ db_client # "unset"
    /\ db_ops < MaxDbOps
    /\ db_ops' = db_ops + 1
    /\ db_answer' = [NoAnswer EXCEPT !.method = method,
                                 !.outcome = IF fails THEN "raised" ELSE "returned"]
    /\ UNCHANGED <<db_config, db_client>>
    /\ UNCHANGED <<clientVars, genVars, storeVars>>

\* create_record, get_record, get_records, update_record, delete_record:
\* without a client the method raises at once; with one it executes its
\* query, which returns or raises (fails).
DbCrud(method, fails) ==
    /\ db_client # "unset"
    /\ IF ~IsConnected
          THEN /\ db_answer' = [NoAnswer EXCEPT !.method = method, !.outcome = "raised"]
               /\ UNCHANGED db_ops
          ELSE /\ db_ops < MaxDbOps
               /\ db_ops' = db_ops + 1
               /\ db_answer' = [NoAnswer EXCEPT !.method = method,
                                   !.outcome = IF fails THEN "raised" ELSE "returned"]
    /\ UNCHANGED <<db_config, db_client>>
    /\ UNCHANGED <<clientVars, genVars, storeVars>>

\* health_check: without a client it answers "error"; with one it runs a
\* query and answers "success", or "error" when the query raises (fails).
DbHealthCheck(fails) ==
    /\ db_client # "unset"
    /\ IF ~IsConnected
          THEN /\ db_answer' = [method |-> "health_check", outcome |-> "returned",
                               status |-> "error", connected |-> FALSE]
               /\ UNCHANGED db_ops
          ELSE /\ db_ops < MaxDbOps
               /\ db_ops' = db_ops + 1
               /\ db_answer' = [method |-> "health_check", outcome |-> "returned",
                               status |-> IF fails THEN "error" ELSE "success",
                               connected |-> ~fails]
    /\ UNCHANGED <<db_config, db_client>>
    /\ UNCHANGED <<clientVars, genVars, storeVars>>

InitDb ==
    /\ GenAtRest
    /\ StoreAtRest
    /\ ClientAtStart
    /\ config = DefaultConfig
    /\ db_config \in DbConfigs
    /\ db_client = "unset"
    /\ db_ops = 0
    /\ db_answer = NoAnswer

NextDb ==
    \/ DbConstruct
    \/ \E method \in CrudMethods, fails \in BOOLEAN : DbCrud(method, fails)
    \/ \E fails \in BOOLEAN : DbHealthCheck(fails)

SpecDb == InitDb /\ [][NextDb]_vars

(***************************************************************************)
(* C30: constructing DatabaseService never raises; when the configuration  *)
(* is incomplete or client creation fails the service is left              *)
(* disconnected, and from then on the five CRUD methods each raise without *)
(* performing a store operation, while health_check returns status "error" *)
(* with connected false instead of raising.                                *)
(***************************************************************************)
LeftDisconnected ==
    /\ db_answer.method = "__init__" => db_answer.outcome = "returned"
    /\ (db_client # "unset"
          /\ (db_config.validate # "complete" \/ db_config.create_fails))
          => db_client = "None"
    /\ db_client = "None"
          => /\ db_ops = 0
             /\ db_answer.method \in CrudMethods => db_answer.outcome = "raised"
             /\ db_answer.method = "health_check"
                   => /\ db_answer.outcome = "returned"
                      /\ db_answer.status = "error"
                      /\ ~db_answer.connected

StaysDisconnected ==
    db_client = "None" => (db_client' = "None" /\ db_ops' = db_ops)

C30_DisconnectedService == []LeftDisconnected /\ [][StaysDisconnected]_vars

C30_Witness ==
    /\ db_config.validate = "complete"
    /\ db_config.create_fails
    /\ db_client = "None"
    /\ db_answer.method = "delete_record"
    /\ db_answer.outcome = "raised"
    /\ db_ops = 0

====
